---- MODULE Spec2Model ----
(***************************************************************************)
(* A model of scaffold-uniswap-v2:                                         *)
(*   - the Home page component (packages/nextjs/app/page.tsx): its React   *)
(*     state, its effects, its four transaction handlers, and the wagmi    *)
(*     hooks it reads (write mutations, receipt waits, factory reads);     *)
(*   - the deploy script (packages/hardhat/deploy/01_deploy_uniswap.ts);   *)
(*   - the mock swap-event generator and its cache (unnamed/part_000).     *)
(* Each of the three has its own specification over the shared variables.  *)
(***************************************************************************)
EXTENDS Integers, Sequences, FiniteSets, TLC

(***************************************************************************)
(* Strings the user can type are sequences of one-character strings, so    *)
(* that Number() and parseUnits() are computed from the characters.        *)
(***************************************************************************)
Empty == <<>>

Digits == {"0", "1", "2", "3", "4", "5", "6", "7", "8", "9"}

\* The texts typed into the token0 amount input (type="text", so any text):
\* nothing, zero, a positive number, text that is no number.
AmountStrings == {Empty, <<"0">>, <<"1">>, <<"a">>}

\* The texts typed into the token1 and LP amount inputs: nothing, or a
\* positive number.
PositiveAmountStrings == {Empty, <<"1">>}

\* The values the slippage input (type="number") can hold: its default
\* "0.5" and the empty string of a cleared input.
SlippageStrings == {<<"0", ".", "5">>, Empty}

RECURSIVE AllDigits(_)
AllDigits(s) == s = Empty \/ (Head(s) \in Digits /\ AllDigits(Tail(s)))

RECURSIVE AllZero(_)
AllZero(s) == s = Empty \/ (Head(s) \in {"0", "."} /\ AllZero(Tail(s)))

\* The position of the first "." of s, or 0.
RECURSIVE DotAt(_, _)
DotAt(s, i) ==
  IF i > Len(s) THEN 0 ELSE IF s[i] = "." THEN i ELSE DotAt(s, i + 1)

Unsigned(s) == IF s # Empty /\ Head(s) = "-" THEN Tail(s) ELSE s

IntPart(s) == IF DotAt(s, 1) = 0 THEN s ELSE SubSeq(s, 1, DotAt(s, 1) - 1)

FracPart(s) ==
  IF DotAt(s, 1) = 0 THEN Empty ELSE SubSeq(s, DotAt(s, 1) + 1, Len(s))

\* JavaScript's StringNumericLiteral, for unsigned decimal text: digits with
\* at most one ".", and at least one digit.
IsDecimalLiteral(u) ==
  /\ AllDigits(IntPart(u))
  /\ AllDigits(FracPart(u))
  /\ Len(IntPart(u)) + Len(FracPart(u)) > 0

\* Number(text): the empty text is 0, a decimal literal is its value, any
\* other text is NaN. The value is kept up to its sign (sgn), which is all
\* that the page compares.
Number(s) ==
  IF s = Empty THEN [nan |-> FALSE, sgn |-> 0]
  ELSE IF ~IsDecimalLiteral(Unsigned(s)) THEN [nan |-> TRUE, sgn |-> 0]
  ELSE IF AllZero(Unsigned(s)) THEN [nan |-> FALSE, sgn |-> 0]
  ELSE IF Head(s) = "-" THEN [nan |-> FALSE, sgn |-> -1]
  ELSE [nan |-> FALSE, sgn |-> 1]

\* Number(amount) <= 0 : every comparison with NaN is false.
LeqZero(n) == ~n.nan /\ n.sgn <= 0

\* The page's "valid amount" test is the negation of
\*   !amount || Number(amount) <= 0
InvalidAmount(amount) == amount = Empty \/ LeqZero(Number(amount))

\* viem's parseUnits(value, decimals): text matching
\*   /^(-?)([0-9]*)\.?([0-9]*)$/
\* is converted (no digit at all gives 0), any other text throws. The
\* result is kept up to its sign.
parseUnits(s) ==
  LET u == Unsigned(s) IN
  IF AllDigits(IntPart(u)) /\ AllDigits(FracPart(u))
  THEN [ok |-> TRUE,
        sgn |-> IF AllZero(u) THEN 0 ELSE IF u # s THEN -1 ELSE 1]
  ELSE [ok |-> FALSE, sgn |-> 0]

\* parseFloat(text) / 100 followed by BigInt(Math.floor((1 - p) * 1000)):
\* BigInt(NaN) throws a RangeError, which parseFloat("") leads to.
SlippageThrows(s) ==
  LET u == Unsigned(s) IN
  \/ u = Empty
  \/ ~(\/ Head(u) \in Digits
       \/ (Head(u) = "." /\ Len(u) > 1 /\ u[2] \in Digits))

(***************************************************************************)
(* The chain, as the page reads it: the factory's pairs, and each pair's   *)
(* tokens and reserves.                                                    *)
(***************************************************************************)
\* Most pairs the factory holds in a session: more than the page has slots.
MaxPairs == 6

\* The page reads allPairs at the fixed indices 0..4.
PoolSlots == 5

NoAddress == ""

ZeroAddress == "0x0000000000000000000000000000000000000000"

User == "0xUser"

PairAddress(i) ==
  <<"0xPair0", "0xPair1", "0xPair2", "0xPair3", "0xPair4", "0xPair5",
    "0xPair6">>[i + 1]

PairIndex(a) == CHOOSE i \in 0..6 : PairAddress(i) = a

PairToken0(a) ==
  <<"0xT0a", "0xT1a", "0xT2a", "0xT3a", "0xT4a", "0xT5a", "0xT6a">>[PairIndex(a) + 1]

PairToken1(a) ==
  <<"0xT0b", "0xT1b", "0xT2b", "0xT3b", "0xT4b", "0xT5b", "0xT6b">>[PairIndex(a) + 1]

\* getReserves of a pair: [reserve0, reserve1] as bigints.
PairReserves(a) == <<PairIndex(a) + 1, PairIndex(a) + 2>>

\* bigint.toString() for the reserves the chain holds.
toString(n) == <<"0", "1", "2", "3", "4", "5", "6", "7", "8", "9">>[n + 1]

\* The pairs the page can read: those of its slots.
PairAddrs == {PairAddress(i) : i \in 0..(PoolSlots - 1)}

(***************************************************************************)
(* The Home component.                                                     *)
(***************************************************************************)
VARIABLES
  connectedAddress,      \* useAccount().address, NoAddress when undefined
  publicClient,          \* whether usePublicClient() returned a client
  selectedPoolAddress,
  pools,                 \* sequence of PoolInfo
  isLoadingPoolDetails,
  token0Amount,
  token1Amount,
  lpTokenAmount,
  swapFromToken,
  lastApprovedToken,
  shouldRefreshPool,
  writeStatus,           \* per write hook: the mutation and its receipt wait
  allPairsLength,        \* the factory read hook's data, -1 when undefined
  poolData,              \* pool0..pool4: the allPairs(i) hooks' data
  refreshReads,          \* getReserves reads of refreshPoolDetails in flight
  fetchReads,            \* reads of fetchPoolDetails in flight
  factoryPairs,          \* the number of pairs the factory holds
  lastCall,              \* what the step just taken did (see NoCall)
  deadline,              \* useState (line 51), a string of decimal digits
  dateNow,               \* Date.now() of the browser, in ms since a whole
                         \* second shortly before the page is mounted
  deadlineDue            \* when the callback of the 60 s interval is due

\* deploy/01_deploy_uniswap.ts (deployUniswap).
VARIABLES
  namedAccounts,         \* the deployer hre.getNamedAccounts() resolves to
  deployPc,              \* where deployUniswap stands
  deployer,              \* const deployer, NoAddress before line 22
  factoryAddress,        \* const factoryAddress, NoAddress before line 35
  deployCalls            \* the calls of hre.deployments.deploy, in order

deployVars == <<namedAccounts, deployPc, deployer, factoryAddress, deployCalls>>

\* The mock swap data module (getHistoricalSwaps).
VARIABLES
  mockSwapCache,         \* poolAddress -> events, for the addresses cached
  calls,                 \* the calls of getHistoricalSwaps, per caller
  clock,                 \* Date.now()
  elapsed                \* timer periods passed since the session began

mockVars == <<mockSwapCache, calls, clock, elapsed>>

pageVars ==
  <<connectedAddress, publicClient, selectedPoolAddress, pools,
    isLoadingPoolDetails, token0Amount, token1Amount, lpTokenAmount,
    swapFromToken, lastApprovedToken, shouldRefreshPool, writeStatus,
    allPairsLength, poolData, refreshReads, fetchReads, factoryPairs,
    lastCall, deadline, dateNow, deadlineDue>>

\* The four useWriteContract hooks, each with its useWaitForTransactionReceipt.
Kinds == {"approve", "addLiquidity", "removeLiquidity", "swap"}

\* A write hook with its receipt wait is in one of:
\*   idle     no transaction under way (never written, rejected by the
\*            wallet, or the receipt wait failed): isPending, isLoading and
\*            isSuccess are false
\*   busy     isPending (writeContract was called, the wallet has not
\*            answered) or isLoading (the hash is known, the receipt is
\*            awaited); the page reads the two only as their disjunction
\*   success  the receipt arrived: isSuccess is true until the next write
Statuses == {"idle", "busy", "success"}

Undefined == -1

\* lastCall tells whether the step just taken was a confirmed transaction
\* ("receipt", with the write hook as result), a tick of the refresh timer
\* ("tick") or the end of a read of refreshPoolDetails ("refreshPoolDetails",
\* with "stored" or "failed"), op and result being "none" after any other
\* step; and whether the step issued a getReserves read of
\* refreshPoolDetails (read).
Call(op, result, read) == [op |-> op, result |-> result, read |-> read]

NoCall == Call("none", "none", FALSE)

\* The component's state and hook outputs as one record: a render.
Cur ==
  [connectedAddress |-> connectedAddress,
   selectedPoolAddress |-> selectedPoolAddress,
   pools |-> pools,
   isLoadingPoolDetails |-> isLoadingPoolDetails,
   token0Amount |-> token0Amount,
   token1Amount |-> token1Amount,
   lpTokenAmount |-> lpTokenAmount,
   swapFromToken |-> swapFromToken,
   lastApprovedToken |-> lastApprovedToken,
   shouldRefreshPool |-> shouldRefreshPool,
   writeStatus |-> writeStatus,
   allPairsLength |-> allPairsLength,
   poolData |-> poolData,
   refreshReads |-> refreshReads,
   fetchReads |-> fetchReads]

\* The next render is r.
Commit(r) ==
  /\ connectedAddress' = r.connectedAddress
  /\ selectedPoolAddress' = r.selectedPoolAddress
  /\ pools' = r.pools
  /\ isLoadingPoolDetails' = r.isLoadingPoolDetails
  /\ token0Amount' = r.token0Amount
  /\ token1Amount' = r.token1Amount
  /\ lpTokenAmount' = r.lpTokenAmount
  /\ swapFromToken' = r.swapFromToken
  /\ lastApprovedToken' = r.lastApprovedToken
  /\ shouldRefreshPool' = r.shouldRefreshPool
  /\ writeStatus' = r.writeStatus
  /\ allPairsLength' = r.allPairsLength
  /\ poolData' = r.poolData
  /\ refreshReads' = r.refreshReads
  /\ fetchReads' = r.fetchReads
  /\ UNCHANGED <<publicClient, factoryPairs, deadline, dateNow, deadlineDue>>
  /\ UNCHANGED <<deployVars, mockVars>>

\* pools.find(pool => pool.address === selectedPoolAddress), as the set of
\* matching positions: empty when find returns undefined.
SelectedPoolAt(r) ==
  {i \in 1..Len(r.pools) : r.pools[i].address = r.selectedPoolAddress}

HasSelectedPool(r) == SelectedPoolAt(r) # {}

selectedPool(r) ==
  r.pools[CHOOSE i \in SelectedPoolAt(r) : \A j \in SelectedPoolAt(r) : i <= j]

isSuccess(r, k) == r.writeStatus[k] = "success"

\* isPending || isConfirming of write hook k.
isBusy(r, k) == r.writeStatus[k] = "busy"

(***************************************************************************)
(* The effects. An effect runs after a render whose dependencies differ    *)
(* from the previous render's; it reads the values of that render (c) and  *)
(* queues state updates (onto n), which make the next render.              *)
(***************************************************************************)
SuccessDeps(r) ==
  <<isSuccess(r, "approve"), isSuccess(r, "addLiquidity"),
    isSuccess(r, "removeLiquidity"), isSuccess(r, "swap"), r.swapFromToken>>

\* SuccessEffect with a first branch that clears token0Amount alone after
\* a confirmed addLiquidity.
SuccessEffectClearsOne(c, n) ==
  IF \E k \in Kinds : isSuccess(c, k)
  THEN IF isSuccess(c, "addLiquidity")
       THEN [n EXCEPT !.shouldRefreshPool = TRUE, !.token0Amount = Empty]
       ELSE [n EXCEPT !.shouldRefreshPool = TRUE]
  ELSE n

\* Track successful transactions to trigger pool refresh, and clear the
\* input fields.
SuccessEffect(c, n) ==
  IF \E k \in Kinds : isSuccess(c, k)
  THEN LET n1 == [n EXCEPT !.shouldRefreshPool = TRUE] IN
       IF isSuccess(c, "addLiquidity")
       THEN [n1 EXCEPT !.token0Amount = Empty, !.token1Amount = Empty]
       ELSE IF isSuccess(c, "removeLiquidity")
       THEN [n1 EXCEPT !.lpTokenAmount = Empty]
       ELSE IF isSuccess(c, "swap")
       THEN IF c.swapFromToken = "token0"
            THEN [n1 EXCEPT !.token0Amount = Empty]
            ELSE [n1 EXCEPT !.token1Amount = Empty]
       ELSE n1
  ELSE n

\* publicClient, the third dependency, does not change during a session.
RefreshDeps(r) == <<r.shouldRefreshPool, r.selectedPoolAddress>>

\* refreshPoolDetails up to its await: the guard, the loading flag, and the
\* getReserves read issued for the selected pool.
RefreshEffect(c, n) ==
  IF ~c.shouldRefreshPool \/ c.selectedPoolAddress = NoAddress \/ ~publicClient
  THEN n
  ELSE [n EXCEPT !.isLoadingPoolDetails = TRUE,
                 !.refreshReads[c.selectedPoolAddress] = @ + 1]

PoolDeps(r) == <<r.poolData, r.selectedPoolAddress>>

\* pool0..pool4 that are set, in index order.
poolAddresses(c) ==
  SelectSeq([i \in 1..PoolSlots |-> c.poolData[i - 1]], LAMBDA a : a # NoAddress)

\* A pool with basic info; the placeholder symbols, which only the display
\* reads, are left out.
initialPool(address) ==
  [address |-> address, token0 |-> ZeroAddress, token1 |-> ZeroAddress,
   reserves |-> <<"0", "0">>]

initialPools(c) ==
  [i \in 1..Len(poolAddresses(c)) |-> initialPool(poolAddresses(c)[i])]

\* The pool addresses effect selecting the first pool on every run.
PoolAddressesEffectSelectsFirst(c, n) ==
  IF Len(poolAddresses(c)) > 0
  THEN [n EXCEPT !.pools = initialPools(c),
                 !.selectedPoolAddress = initialPools(c)[1].address]
  ELSE n

\* Fetch pool addresses.
PoolAddressesEffect(c, n) ==
  IF Len(poolAddresses(c)) > 0
  THEN LET n1 == [n EXCEPT !.pools = initialPools(c)] IN
       IF c.selectedPoolAddress = NoAddress
       THEN [n1 EXCEPT !.selectedPoolAddress = initialPools(c)[1].address]
       ELSE n1
  ELSE n

FetchDeps(r) == <<r.selectedPoolAddress>>

\* fetchPoolDetails up to its first await.
FetchEffect(c, n) ==
  IF c.selectedPoolAddress # NoAddress /\ publicClient
  THEN [n EXCEPT !.isLoadingPoolDetails = TRUE,
                 !.fetchReads[c.selectedPoolAddress] = @ + 1]
  ELSE n

\* The effects of one render, in the order the component declares them.
RunEffects(prev, c) ==
  LET n1 == IF SuccessDeps(prev) # SuccessDeps(c) THEN SuccessEffect(c, c) ELSE c
      n2 == IF RefreshDeps(prev) # RefreshDeps(c) THEN RefreshEffect(c, n1) ELSE n1
      n3 == IF PoolDeps(prev) # PoolDeps(c) THEN PoolAddressesEffect(c, n2) ELSE n2
      n4 == IF FetchDeps(prev) # FetchDeps(c) THEN FetchEffect(c, n3) ELSE n3
  IN n4

\* Renders and effects repeat until an effect pass changes nothing; React
\* runs them before it handles the next event.
RECURSIVE Settle(_, _)
Settle(prev, c) ==
  LET n == RunEffects(prev, c) IN IF n = c THEN c ELSE Settle(c, n)

\* Most reads of refreshPoolDetails and fetchPoolDetails in flight at once.
MaxInFlight == 1

RECURSIVE Sum(_, _)
Sum(f, S) ==
  IF S = {} THEN 0 ELSE LET x == CHOOSE y \in S : TRUE IN f[x] + Sum(f, S \ {x})

InFlight(r) == Sum(r.refreshReads, PairAddrs) + Sum(r.fetchReads, PairAddrs)

\* Most write hooks holding a transaction (under way or confirmed) at once.
MaxHooks == 2

HooksInUse(r) == Cardinality({k \in Kinds : r.writeStatus[k] # "idle"})

\* An event handler (or a hook's new output) made the render raw out of the
\* current one; the effects follow.
Step(raw, op, result) ==
  LET n == Settle(Cur, raw) IN
  /\ InFlight(n) <= MaxInFlight
  /\ HooksInUse(n) <= MaxHooks
  /\ Commit(n)
  /\ lastCall' = Call(op, result,
                      Sum(n.refreshReads, PairAddrs) > Sum(raw.refreshReads, PairAddrs))

(***************************************************************************)
(* The handlers. Each returns the render it leaves and what it did:        *)
(*   "no_wallet_or_pool"  the first early return                           *)
(*   "invalid_amount"     the second early return                          *)
(*   "threw"              an exception reached the catch block             *)
(*   "write"              the write client was called                      *)
(***************************************************************************)
\* useWriteContract's writeContract: the mutation starts, its previous
\* hash is dropped.
writeContract(r, k) == [r EXCEPT !.writeStatus[k] = "busy"]

amountOf(r, tokenType) ==
  IF tokenType = "token0" THEN r.token0Amount ELSE r.token1Amount

\* handleApproveToken without the test of the wallet address.
handleApproveTokenNoWallet(r, tokenType) ==
  IF ~HasSelectedPool(r)
  THEN [next |-> r, result |-> "no_wallet_or_pool"]
  ELSE IF InvalidAmount(amountOf(r, tokenType))
  THEN [next |-> r, result |-> "invalid_amount"]
  ELSE [next |-> writeContract([r EXCEPT !.lastApprovedToken = tokenType], "approve"),
        result |-> "write"]

handleApproveToken(r, tokenType) ==
  IF r.connectedAddress = NoAddress \/ ~HasSelectedPool(r)
  THEN [next |-> r, result |-> "no_wallet_or_pool"]
  ELSE IF InvalidAmount(amountOf(r, tokenType))
  THEN [next |-> r, result |-> "invalid_amount"]
  ELSE [next |-> writeContract([r EXCEPT !.lastApprovedToken = tokenType], "approve"),
        result |-> "write"]

handleDeposit(r, slippageTolerance) ==
  IF r.connectedAddress = NoAddress \/ ~HasSelectedPool(r)
  THEN [next |-> r, result |-> "no_wallet_or_pool"]
  ELSE IF \/ r.token0Amount = Empty \/ r.token1Amount = Empty
          \/ LeqZero(Number(r.token0Amount)) \/ LeqZero(Number(r.token1Amount))
  THEN [next |-> r, result |-> "invalid_amount"]
  ELSE IF \/ ~parseUnits(r.token0Amount).ok \/ ~parseUnits(r.token1Amount).ok
          \/ SlippageThrows(slippageTolerance)
  THEN [next |-> r, result |-> "threw"]
  ELSE [next |-> writeContract(r, "addLiquidity"), result |-> "write"]

handleRedeem(r) ==
  IF r.connectedAddress = NoAddress \/ ~HasSelectedPool(r)
  THEN [next |-> r, result |-> "no_wallet_or_pool"]
  ELSE IF InvalidAmount(r.lpTokenAmount)
  THEN [next |-> r, result |-> "invalid_amount"]
  ELSE IF ~parseUnits(r.lpTokenAmount).ok
  THEN [next |-> r, result |-> "threw"]
  ELSE [next |-> writeContract(r, "removeLiquidity"), result |-> "write"]

handleSwap(r) ==
  IF r.connectedAddress = NoAddress \/ ~HasSelectedPool(r)
  THEN [next |-> r, result |-> "no_wallet_or_pool"]
  ELSE IF InvalidAmount(amountOf(r, r.swapFromToken))
  THEN [next |-> r, result |-> "invalid_amount"]
  ELSE IF ~parseUnits(amountOf(r, r.swapFromToken)).ok
  THEN [next |-> r, result |-> "threw"]
  ELSE [next |-> writeContract(r, "swap"), result |-> "write"]

\* The derived loading states that disable the buttons.
isApproving(r, tokenType) ==
  isBusy(r, "approve") /\ r.lastApprovedToken = tokenType

Called(op, o) == Step(o.next, "none", "none")

(***************************************************************************)
(* The user's events. The pool card, with its inputs and buttons, is       *)
(* rendered only while selectedPool is defined. The active tab is not      *)
(* modelled: the user can switch tabs at any time and no handler reads it, *)
(* so every input and button of the card is within reach. The slippage     *)
(* input is read by handleDeposit alone and holds whatever the user left   *)
(* in it.                                                                  *)
(***************************************************************************)
ClickApprove ==
  \E tokenType \in {"token0", "token1"} :
    /\ HasSelectedPool(Cur)
    /\ amountOf(Cur, tokenType) # Empty
    /\ ~isApproving(Cur, tokenType)
    /\ Called("handleApproveToken", handleApproveToken(Cur, tokenType))

ClickDeposit ==
  \E slippageTolerance \in SlippageStrings :
    /\ HasSelectedPool(Cur)
    /\ token0Amount # Empty /\ token1Amount # Empty
    /\ ~isBusy(Cur, "addLiquidity")
    /\ Called("handleDeposit", handleDeposit(Cur, slippageTolerance))

ClickRedeem ==
  /\ HasSelectedPool(Cur)
  /\ lpTokenAmount # Empty
  /\ ~isBusy(Cur, "removeLiquidity")
  /\ Called("handleRedeem", handleRedeem(Cur))

ClickSwap ==
  /\ HasSelectedPool(Cur)
  /\ amountOf(Cur, swapFromToken) # Empty
  /\ ~isBusy(Cur, "swap")
  /\ Called("handleSwap", handleSwap(Cur))

Other(raw) == Step(raw, "none", "none")

TypeToken0Amount ==
  \E v \in AmountStrings :
    /\ HasSelectedPool(Cur)
    /\ Other([Cur EXCEPT !.token0Amount = v])

TypeToken1Amount ==
  \E v \in PositiveAmountStrings :
    /\ HasSelectedPool(Cur)
    /\ Other([Cur EXCEPT !.token1Amount = v])

TypeLpTokenAmount ==
  \E v \in PositiveAmountStrings :
    /\ HasSelectedPool(Cur)
    /\ Other([Cur EXCEPT !.lpTokenAmount = v])

SelectSwapFromToken ==
  \E t \in {"token0", "token1"} :
    /\ HasSelectedPool(Cur)
    /\ Other([Cur EXCEPT !.swapFromToken = t])

\* The pool selector: disabled while pool details load.
SelectPool ==
  \E i \in 1..Len(pools) :
    /\ ~isLoadingPoolDetails
    /\ Other([Cur EXCEPT !.selectedPoolAddress = pools[i].address])

ConnectWallet ==
  /\ connectedAddress = NoAddress
  /\ Other([Cur EXCEPT !.connectedAddress = User])

DisconnectWallet ==
  /\ connectedAddress # NoAddress
  /\ Other([Cur EXCEPT !.connectedAddress = NoAddress])

(***************************************************************************)
(* The wallet and the chain, as the hooks report them.                     *)
(***************************************************************************)
\* The wallet signed and the transaction is confirmed: isSuccess of the
\* receipt wait turns true.
ReceiptArrives ==
  \E k \in Kinds :
    /\ isBusy(Cur, k)
    /\ Step([Cur EXCEPT !.writeStatus[k] = "success"], "receipt", k)

\* The wallet rejects the write, or the receipt wait fails.
WriteFails ==
  \E k \in Kinds :
    /\ isBusy(Cur, k)
    /\ Other([Cur EXCEPT !.writeStatus[k] = "idle"])

\* The 15 second interval, which exists while a pool is selected and the
\* read client is available.
Tick ==
  /\ selectedPoolAddress # NoAddress
  /\ publicClient
  /\ Step([Cur EXCEPT !.shouldRefreshPool = TRUE], "tick", "none")

\* number.toString() of a non-negative integer: its decimal digits.
RECURSIVE numberToString(_)
numberToString(n) ==
  IF n < 10
  THEN <<toString(n)>>
  ELSE Append(numberToString(n \div 10), toString(n % 10))

\* BigInt(s) of a string of decimal digits.
RECURSIVE BigInt(_)
BigInt(s) ==
  IF s = Empty
  THEN 0
  ELSE 10 * BigInt(SubSeq(s, 1, Len(s) - 1))
       + (CHOOSE d \in 0..9 : toString(d) = s[Len(s)])

\* The period of the deadline interval, in ms.
deadlineInterval == 60000

\* (Math.floor(Date.now() / 1000) + 60 * 20).toString(), at time t.
deadlineAt(t) == numberToString((t \div 1000) + 60 * 20)

\* The deadline argument of the three router writes.
deadlineArg == BigInt(deadline)

\* How long before the callback is due the clock is looked at, and how
\* late the callback may run (setInterval promises no less than its period,
\* and no more than that).
BeforeDue == 400
MaxLateness == 300

\* The interval callbacks a session has.
MaxDeadlineTicks == 2

\* Date.now() at the mount of the page: on a second, or half a second on.
MountTimes == {0, 500}

\* The instants at which the model looks at the page, around the time the
\* callback is due.
Instants == {deadlineDue - BeforeDue, deadlineDue, deadlineDue + MaxLateness}

\* Time passes; the page is idle meanwhile.
ClockAdvances ==
  /\ \E t \in Instants : t > dateNow /\ dateNow' = t
  /\ UNCHANGED <<connectedAddress, publicClient, selectedPoolAddress, pools,
                 isLoadingPoolDetails, token0Amount, token1Amount,
                 lpTokenAmount, swapFromToken, lastApprovedToken,
                 shouldRefreshPool, writeStatus, allPairsLength, poolData,
                 refreshReads, fetchReads, factoryPairs, lastCall>>
  /\ UNCHANGED <<deadline, deadlineDue>>
  /\ UNCHANGED <<deployVars, mockVars>>

\* The callback of the deadline interval: it runs when due or later, and
\* the next one is due a period after it.
DeadlineTick ==
  /\ dateNow >= deadlineDue
  /\ deadlineDue < MaxDeadlineTicks * deadlineInterval
  /\ deadline' = deadlineAt(dateNow)
  /\ deadlineDue' = dateNow + deadlineInterval
  /\ UNCHANGED <<connectedAddress, publicClient, selectedPoolAddress, pools,
                 isLoadingPoolDetails, token0Amount, token1Amount,
                 lpTokenAmount, swapFromToken, lastApprovedToken,
                 shouldRefreshPool, writeStatus, allPairsLength, poolData,
                 refreshReads, fetchReads, factoryPairs, lastCall>>
  /\ UNCHANGED dateNow
  /\ UNCHANGED <<deployVars, mockVars>>

\* The mount of the page: the initial state of deadline and the interval.
DeadlineInit ==
  /\ dateNow \in MountTimes
  /\ deadline = deadlineAt(dateNow)
  /\ deadlineDue = dateNow + deadlineInterval

\* The page is mounted on a second, and its clock is not looked at.
DeadlineIdle == DeadlineInit /\ dateNow = 0

\* prevPools.map(...) of refreshPoolDetails: the reserves of the pool the
\* read was issued for.
withReserves(ps, a) ==
  [i \in 1..Len(ps) |->
     IF ps[i].address = a
     THEN [ps[i] EXCEPT !.reserves =
             <<toString(PairReserves(a)[1]), toString(PairReserves(a)[2])>>]
     ELSE ps[i]]

\* The getReserves read of refreshPoolDetails returns: the rest of the try
\* block, then finally.
RefreshReadSucceeds ==
  \E a \in PairAddrs :
    /\ refreshReads[a] > 0
    /\ Step([Cur EXCEPT !.refreshReads[a] = @ - 1,
                        !.pools = withReserves(@, a),
                        !.shouldRefreshPool = FALSE,
                        !.isLoadingPoolDetails = FALSE],
            "refreshPoolDetails", "stored")

\* The read throws: the catch block, then finally.
RefreshReadFails ==
  \E a \in PairAddrs :
    /\ refreshReads[a] > 0
    /\ Step([Cur EXCEPT !.refreshReads[a] = @ - 1,
                        !.isLoadingPoolDetails = FALSE],
            "refreshPoolDetails", "failed")

\* prevPools.map(...) of fetchPoolDetails: tokens and reserves. Symbols and
\* decimals, which only the display and the scaling of amounts read, are
\* left out.
withDetails(ps, a) ==
  [i \in 1..Len(ps) |->
     IF ps[i].address = a
     THEN [address |-> a, token0 |-> PairToken0(a), token1 |-> PairToken1(a),
           reserves |->
             <<toString(PairReserves(a)[1]), toString(PairReserves(a)[2])>>]
     ELSE ps[i]]

\* The reads of fetchPoolDetails (token0, token1, getReserves) return.
FetchReadSucceeds ==
  \E a \in PairAddrs :
    /\ fetchReads[a] > 0
    /\ Other([Cur EXCEPT !.fetchReads[a] = @ - 1,
                         !.pools = withDetails(@, a),
                         !.isLoadingPoolDetails = FALSE])

\* One of them throws.
FetchReadFails ==
  \E a \in PairAddrs :
    /\ fetchReads[a] > 0
    /\ Other([Cur EXCEPT !.fetchReads[a] = @ - 1,
                         !.isLoadingPoolDetails = FALSE])

\* The allPairsLength read hook gets its data.
AllPairsLengthRead ==
  /\ allPairsLength = Undefined
  /\ Other([Cur EXCEPT !.allPairsLength = factoryPairs])

\* The allPairs(i) read hooks without their enabled conditions.
AllPairsReadAlways ==
  \E i \in 0..(PoolSlots - 1) :
    /\ poolData[i] = NoAddress
    /\ Other([Cur EXCEPT !.poolData[i] = PairAddress(i)])

\* An allPairs(i) read hook, enabled once allPairsLength > i, gets its data.
AllPairsRead ==
  \E i \in 0..(PoolSlots - 1) :
    /\ allPairsLength # Undefined /\ allPairsLength > i
    /\ poolData[i] = NoAddress
    /\ Other([Cur EXCEPT !.poolData[i] = PairAddress(i)])

(***************************************************************************)
(* deploy/01_deploy_uniswap.ts: deployUniswap.                             *)
(* The function is a sequence of awaits; deployPc names the await (or the  *)
(* statement) it stands at. A call of hre.deployments.deploy is recorded   *)
(* in deployCalls when it is made, as pending, and turns deployed (with    *)
(* the address of the contract) or failed when its promise settles. A      *)
(* rejected promise ends the function: nothing catches it.                 *)
(***************************************************************************)
Accounts == {"0xAcc1", "0xAcc2", "0xAcc3"}

ContractAddresses == {"0xC1", "0xC2", "0xC3", "0xC4"}

DeployCall(name, from, args) ==
  [name |-> name, from |-> from, args |-> args, status |-> "pending",
   address |-> NoAddress]

\* Addresses of the contracts deployed so far.
Deployed == {deployCalls[i].address : i \in 1..Len(deployCalls)} \ {NoAddress}

\* deployCalls once the promise of the last call has settled.
outcome(status, address) ==
  [deployCalls EXCEPT ![Len(deployCalls)] =
     [@ EXCEPT !.status = status, !.address = address]]

\* args of the Router deployment, with the roles swapped.
RouterArgsSwapped == <<ZeroAddress, factoryAddress>>

\* args: [factoryAddress, "0x0000000000000000000000000000000000000000"]
RouterArgs == <<factoryAddress, ZeroAddress>>

\* args: [deployer]
FactoryArgs == <<deployer>>

\* const { deployer } = await hre.getNamedAccounts();
GetNamedAccounts ==
  /\ deployPc = "getNamedAccounts"
  /\ deployer' = namedAccounts
  /\ deployPc' = "deployFactory"
  /\ UNCHANGED <<namedAccounts, factoryAddress, deployCalls>>
  /\ UNCHANGED <<pageVars, mockVars>>

\* deploy("UniswapV2Factory", {from: deployer, args: [deployer], ...})
DeployFactory ==
  /\ deployPc = "deployFactory"
  /\ deployCalls' = Append(deployCalls,
                           DeployCall("UniswapV2Factory", deployer, FactoryArgs))
  /\ deployPc' = "awaitFactory"
  /\ UNCHANGED <<namedAccounts, deployer, factoryAddress>>
  /\ UNCHANGED <<pageVars, mockVars>>

\* The Factory deployment resolves; const factoryAddress = factory.address.
FactoryDeployed ==
  /\ deployPc = "awaitFactory"
  /\ \E a \in ContractAddresses \ Deployed :
       /\ deployCalls' = outcome("deployed", a)
       /\ factoryAddress' = a
  /\ deployPc' = "deployRouter"
  /\ UNCHANGED <<namedAccounts, deployer>>
  /\ UNCHANGED <<pageVars, mockVars>>

\* The Factory deployment rejects: deployUniswap rejects with it.
FactoryDeployFails ==
  /\ deployPc = "awaitFactory"
  /\ deployCalls' = outcome("failed", NoAddress)
  /\ deployPc' = "failed"
  /\ UNCHANGED <<namedAccounts, deployer, factoryAddress>>
  /\ UNCHANGED <<pageVars, mockVars>>

\* deploy("UniswapV2Router02", {from: deployer, args: [...], ...})
DeployRouter ==
  /\ deployPc = "deployRouter"
  /\ deployCalls' = Append(deployCalls,
                           DeployCall("UniswapV2Router02", deployer, RouterArgs))
  /\ deployPc' = "awaitRouter"
  /\ UNCHANGED <<namedAccounts, deployer, factoryAddress>>
  /\ UNCHANGED <<pageVars, mockVars>>

\* The Router deployment resolves.
RouterDeployed ==
  /\ deployPc = "awaitRouter"
  /\ \E a \in ContractAddresses \ Deployed :
       deployCalls' = outcome("deployed", a)
  /\ deployPc' = "getContract"
  /\ UNCHANGED <<namedAccounts, deployer, factoryAddress>>
  /\ UNCHANGED <<pageVars, mockVars>>

\* The Router deployment rejects: deployUniswap rejects with it.
RouterDeployFails ==
  /\ deployPc = "awaitRouter"
  /\ deployCalls' = outcome("failed", NoAddress)
  /\ deployPc' = "failed"
  /\ UNCHANGED <<namedAccounts, deployer, factoryAddress>>
  /\ UNCHANGED <<pageVars, mockVars>>

\* hre.ethers.getContract of the Factory and of the Router.
GetContracts ==
  /\ deployPc = "getContract"
  /\ deployPc' = "log"
  /\ UNCHANGED <<namedAccounts, deployer, factoryAddress, deployCalls>>
  /\ UNCHANGED <<pageVars, mockVars>>

\* The two console.log lines; deployUniswap resolves.
LogAddresses ==
  /\ deployPc = "log"
  /\ deployPc' = "done"
  /\ UNCHANGED <<namedAccounts, deployer, factoryAddress, deployCalls>>
  /\ UNCHANGED <<pageVars, mockVars>>

DeployInit ==
  /\ namedAccounts \in Accounts
  /\ deployPc = "getNamedAccounts"
  /\ deployer = NoAddress
  /\ factoryAddress = NoAddress
  /\ deployCalls = <<>>

\* deployUniswap is not running.
DeployIdle == DeployInit /\ namedAccounts = "0xAcc1"

(***************************************************************************)
(* The mock swap data module: mockSwapCache, getHistoricalSwaps,           *)
(* generateMockSwapEvents.                                                 *)
(*                                                                         *)
(* Time. Date.now() is a number of milliseconds that does not fit the      *)
(* integers of the model checker once multiplied or compared over a month, *)
(* so a time is held as whole days and milliseconds of the day:            *)
(* [days |-> d, ms |-> m] stands for d * oneDay + m, 0 <= m < oneDay.      *)
(*                                                                         *)
(* Math.random. The engine's generator is deterministic from a hidden      *)
(* state; a call of generateMockSwapEvents starts from a state the model   *)
(* chooses, and every Math.random() advances it (NextRandom). Its value    *)
(* is read at the resolution RandRes: random(x) / RandRes, in [0, 1).      *)
(*                                                                         *)
(* Events. price, amountIn and amountOut are floating-point results of the *)
(* price walk (lines 80-106); the model keeps their Math.random() calls,   *)
(* which advance the generator, and not their values.                      *)
(***************************************************************************)
oneDay == 24 * 60 * 60 * 1000

eventsCount == 100

RandRes == 64

RandModulus == 65536

MaxSeed == 1

Callers == 2

MaxElapsed == 2

\* setTimeout(resolve, 500)
Latency == 500

PoolAddresses == {PairAddress(0), PairAddress(1)}

wallets ==
  <<"0x1234567890123456789012345678901234567890",
    "0x2345678901234567890123456789012345678901",
    "0x3456789012345678901234567890123456789012",
    "0x4567890123456789012345678901234567890123">>

Time(d, m) == [days |-> d, ms |-> m]

\* t + ms
Plus(t, ms) ==
  LET m == t.ms + ms IN Time(t.days + (m \div oneDay), m % oneDay)

\* t - d * oneDay - ms, for 0 <= ms < oneDay
Minus(t, d, ms) ==
  IF t.ms >= ms THEN Time(t.days - d, t.ms - ms)
                ELSE Time(t.days - d - 1, t.ms + oneDay - ms)

\* a <= b
NotAfter(a, b) == a.days < b.days \/ (a.days = b.days /\ a.ms <= b.ms)

\* a < b
Before(a, b) == a.days < b.days \/ (a.days = b.days /\ a.ms < b.ms)

\* The generator's next state.
NextRandom(x) == (25173 * x + 13849) % RandModulus

\* Math.random() in state x, as the numerator k of k / RandRes.
random(x) == (x * RandRes) \div RandModulus

\* Math.floor(r * n) for r = k / RandRes, without forming k * n.
floorTimes(k, n) == k * (n \div RandRes) + (k * (n % RandRes)) \div RandRes

\* Math.floor(Math.pow(r, 2) * 31): a span of 31 days where the code has 30.
dayOffsetOver31(k) == (k * k * 31) \div (RandRes * RandRes)

\* Math.floor(Math.pow(Math.random(), 2) * 30), for Math.random() = k / RandRes
dayOffset(k) == (k * k * 30) \div (RandRes * RandRes)

\* The event of one iteration of the loop, from the generator state x
\* before it; the iteration calls Math.random() eight times.
RandomCallsPerEvent == 8

RECURSIVE Advance(_, _)
Advance(x, n) == IF n = 0 THEN x ELSE Advance(NextRandom(x), n - 1)

mockEvent(now, x) ==
  LET r1 == random(Advance(x, 1))  \* line 77
      r2 == random(Advance(x, 2))  \* line 78
      r5 == random(Advance(x, 5))  \* line 87
      r8 == random(Advance(x, 8))  \* line 113
  IN [timestamp |-> Minus(now, dayOffset(r1), floorTimes(r2, oneDay)),
      token0In |-> 2 * r5 > RandRes,
      sender |-> wallets[floorTimes(r8, Len(wallets)) + 1]]

\* The events in the order the loop pushed them.
unsorted(events) == events

\* events.sort((a, b) => a.timestamp - b.timestamp)
sort(events) ==
  SortSeq(events, LAMBDA a, b : Before(a.timestamp, b.timestamp))

\* The loop of generateMockSwapEvents from iteration i on, with the
\* generator in state x and the events pushed so far.
RandomStates == 0..(RandModulus - 1)

RECURSIVE generateLoop(_, _, _, _)
generateLoop(now, x, i, events) ==
  CASE i >= eventsCount -> events
    [] i < eventsCount /\ x \in RandomStates /\ Len(events) = i ->
         generateLoop(now, Advance(x, RandomCallsPerEvent), i + 1,
                      Append(events, mockEvent(now, x)))

\* generateMockSwapEvents, called at time now with the generator in state x.
generateMockSwapEvents(now, x) == sort(generateLoop(now, x, 0, <<>>))

\* A call of getHistoricalSwaps:
\*   idle      not made
\*   delay     past the cache check, in the 500 ms wait, until wakeAt
\*   returned  the promise resolved with events; hit tells whether they
\*             came from the cache, now is the generation time of a miss
NoTime == Time(0, 0)

IdleCall ==
  [pc |-> "idle", poolAddress |-> NoAddress, wakeAt |-> NoTime,
   events |-> <<>>, hit |-> FALSE, now |-> NoTime]

\* getHistoricalSwaps(poolAddress, ...) up to its first await: the cache
\* check, a return on a hit, the timer on a miss.
CallGetHistoricalSwaps(c, poolAddress) ==
  /\ calls[c].pc = "idle"
  /\ calls' = [calls EXCEPT ![c] =
       IF poolAddress \in DOMAIN mockSwapCache
         THEN [IdleCall EXCEPT !.pc = "returned", !.poolAddress = poolAddress,
                               !.events = mockSwapCache[poolAddress],
                               !.hit = TRUE]
         ELSE [IdleCall EXCEPT !.pc = "delay", !.poolAddress = poolAddress,
                               !.wakeAt = Plus(clock, Latency)]]
  /\ UNCHANGED <<mockSwapCache, clock, elapsed>>
  /\ UNCHANGED <<pageVars, deployVars>>

\* The timer of call c fired: generate, store in the cache, return.
ResumeGetHistoricalSwaps(c) ==
  /\ calls[c].pc = "delay"
  /\ NotAfter(calls[c].wakeAt, clock)
  /\ \E seed \in 0..MaxSeed :
       LET events == generateMockSwapEvents(clock, seed) IN
       /\ mockSwapCache' =
            [a \in DOMAIN mockSwapCache \cup {calls[c].poolAddress} |->
               IF a = calls[c].poolAddress THEN events ELSE mockSwapCache[a]]
       /\ calls' = [calls EXCEPT ![c] =
            [@ EXCEPT !.pc = "returned", !.events = events, !.now = clock]]
  /\ UNCHANGED <<clock, elapsed>>
  /\ UNCHANGED <<pageVars, deployVars>>

GetHistoricalSwapsCalled ==
  \E c \in 1..Callers, a \in PoolAddresses : CallGetHistoricalSwaps(c, a)

GetHistoricalSwapsResumes ==
  \E c \in 1..Callers : ResumeGetHistoricalSwaps(c)

\* A timer period passes.
TimePasses ==
  /\ elapsed < MaxElapsed
  /\ elapsed' = elapsed + 1
  /\ clock' = Plus(clock, Latency)
  /\ UNCHANGED <<mockSwapCache, calls>>
  /\ UNCHANGED <<pageVars, deployVars>>

\* Midnight, and half a second before midnight, of a day of 2024.
StartTimes == {Time(20000, 0), Time(20000, oneDay - Latency)}

MockInit ==
  /\ mockSwapCache = <<>>
  /\ calls = [c \in 1..Callers |-> IdleCall]
  /\ clock \in StartTimes
  /\ elapsed = 0

\* The module is loaded and not called.
MockIdle == MockInit /\ clock = Time(20000, 0)

PageInit ==
  /\ connectedAddress = NoAddress
  /\ publicClient \in BOOLEAN
  /\ selectedPoolAddress = NoAddress
  /\ pools = <<>>
  /\ isLoadingPoolDetails = FALSE
  /\ token0Amount = Empty
  /\ token1Amount = Empty
  /\ lpTokenAmount = Empty
  /\ swapFromToken = "token0"
  /\ lastApprovedToken = "null"
  /\ shouldRefreshPool = FALSE
  /\ writeStatus = [k \in Kinds |-> "idle"]
  /\ allPairsLength = Undefined
  /\ poolData = [i \in 0..(PoolSlots - 1) |-> NoAddress]
  /\ refreshReads = [a \in PairAddrs |-> 0]
  /\ fetchReads = [a \in PairAddrs |-> 0]
  /\ factoryPairs \in 0..MaxPairs
  /\ lastCall = NoCall

\* A confirmed transaction of hook k was the step just taken.
Confirmed(k) == lastCall.op = "receipt" /\ lastCall.result = k

vars == <<pageVars, deployVars, mockVars>>

(***************************************************************************)
(* Spec: a session at the forms. The read client is available and the     *)
(* factory holds at most one pair; the user connects and disconnects the   *)
(* wallet, types into the inputs, picks the swap direction and clicks the  *)
(* buttons; the wallet and the chain answer the writes; the reads of the   *)
(* page succeed. (SpecRefresh is the specification with the refresh timer, *)
(* more pairs, the pool selector, failing reads and no read client.)       *)
(***************************************************************************)
Init ==
  PageInit /\ DeadlineIdle /\ publicClient /\ factoryPairs <= 1 /\ DeployIdle /\ MockIdle

Next ==
  \/ ClickApprove \/ ClickDeposit \/ ClickRedeem \/ ClickSwap
  \/ TypeToken0Amount \/ TypeToken1Amount \/ TypeLpTokenAmount
  \/ SelectSwapFromToken
  \/ ConnectWallet \/ DisconnectWallet
  \/ ReceiptArrives \/ WriteFails
  \/ RefreshReadSucceeds
  \/ FetchReadSucceeds
  \/ AllPairsLengthRead \/ AllPairsRead

Spec == Init /\ [][Next]_vars

(***************************************************************************)
(* SpecRefresh: a session at the pool card. The pairs of the factory (at   *)
(* most two) load, the user picks pools, the timer ticks, the reads of     *)
(* the page succeed or                                                     *)
(* fail; transactions come from the approve flow of token0.                *)
(* Fairness: the timer fires while it exists, every read of                *)
(* refreshPoolDetails returns or throws, and such a read issued again and  *)
(* again eventually succeeds. The user, the wallet and the other reads     *)
(* are under no obligation.                                                *)
(***************************************************************************)
RefreshNext ==
  \/ AllPairsLengthRead \/ AllPairsRead
  \/ SelectPool
  \/ Tick
  \/ RefreshReadSucceeds \/ RefreshReadFails
  \/ FetchReadSucceeds \/ FetchReadFails
  \/ ConnectWallet
  \/ TypeToken0Amount
  \/ ClickApprove
  \/ ReceiptArrives \/ WriteFails

RefreshFairness ==
  /\ WF_vars(Tick)
  /\ WF_vars(RefreshReadSucceeds \/ RefreshReadFails)
  /\ SF_vars(RefreshReadSucceeds)

RefreshInit ==
  PageInit /\ DeadlineIdle /\ factoryPairs <= 2 /\ DeployIdle /\ MockIdle

SpecRefresh == RefreshInit /\ [][RefreshNext]_vars /\ RefreshFairness

\* C4: a transaction confirmed while a pool is selected and the read client
\* is available leads to a getReserves read of refreshPoolDetails whose
\* result is stored, with shouldRefreshPool back to false.
C4_ConfirmedLeadsToRefresh ==
  (lastCall.op = "receipt" /\ selectedPoolAddress # NoAddress /\ publicClient)
    ~> (/\ lastCall.op = "refreshPoolDetails"
        /\ lastCall.result = "stored"
        /\ ~shouldRefreshPool)

\* C5: every tick of the refresh timer (which exists only while a pool is
\* selected and the read client is available) leads to a step that issues
\* a getReserves read of refreshPoolDetails, the tick itself included.
C5_TickLeadsToRead == (lastCall.op = "tick") ~> lastCall.read

(***************************************************************************)
(* Properties of the handlers and of the transaction-success effect.       *)
(***************************************************************************)
\* This step called the write client of hook k. (The buttons are disabled
\* while their hook is busy, so every call turns an idle or successful hook
\* busy.)
WriteIssued(k) == writeStatus[k] # "busy" /\ writeStatus'[k] = "busy"

\* amount is non-empty and greater than 0.
Positive(amount) ==
  amount # Empty /\ ~Number(amount).nan /\ Number(amount).sgn > 0

\* C1: a write is issued only from a state with a connected wallet and a
\* selected pool that is an entry of pools; from any other state no step
\* calls the write client or records an approved token.
C1_WritesNeedWalletAndPool ==
  [][/\ (\E k \in Kinds : WriteIssued(k))
        => (connectedAddress # NoAddress /\ HasSelectedPool(Cur))
     /\ (connectedAddress = NoAddress \/ ~HasSelectedPool(Cur))
        => (/\ \A k \in Kinds : writeStatus'[k] = "busy" => writeStatus[k] = "busy"
            /\ lastApprovedToken' = lastApprovedToken)]_vars

\* A write is under way, issued with the wallet connected and a pool
\* selected.
C1_Witness ==
  /\ connectedAddress # NoAddress
  /\ HasSelectedPool(Cur)
  /\ \E k \in Kinds : writeStatus[k] = "busy"

\* C2: every write is issued with non-empty amounts greater than 0:
\* addLiquidity with both token amounts, removeLiquidity with the LP
\* amount, swap with the amount of the from-token, approve with the amount
\* of the approved token.
C2_WritesNeedPositiveAmounts ==
  [][/\ WriteIssued("addLiquidity")
        => (Positive(token0Amount) /\ Positive(token1Amount))
     /\ WriteIssued("removeLiquidity") => Positive(lpTokenAmount)
     /\ WriteIssued("swap") => Positive(amountOf(Cur, swapFromToken))
     /\ WriteIssued("approve") => Positive(amountOf(Cur, lastApprovedToken'))]_vars

\* C6: right after an addLiquidity transaction is confirmed, token0Amount
\* and token1Amount are both empty.
C6_AddLiquidityClearsAmounts ==
  Confirmed("addLiquidity")
    => (token0Amount = Empty /\ token1Amount = Empty)

\* An addLiquidity transaction was just confirmed while the hook of an
\* earlier confirmed transaction still reports success.
C6_Witness ==
  /\ Confirmed("addLiquidity")
  /\ \E k \in Kinds \ {"addLiquidity"} : writeStatus[k] = "success"

\* C7: right after a removeLiquidity transaction is confirmed,
\* lpTokenAmount is empty.
C7_RemoveLiquidityClearsAmount ==
  Confirmed("removeLiquidity") => lpTokenAmount = Empty

\* C8: right after a swap transaction is confirmed, the amount of the
\* from-token is empty.
C8_SwapClearsAmount ==
  Confirmed("swap") => amountOf(Cur, swapFromToken) = Empty

(***************************************************************************)
(* SpecDeploy: one run of deployUniswap, for every deployer account, every *)
(* outcome of the two deployments and every address they may return.       *)
(***************************************************************************)
\* The page is not mounted.
PageIdle == PageInit /\ DeadlineIdle /\ ~publicClient /\ factoryPairs = 0

DeployNext ==
  \/ GetNamedAccounts
  \/ DeployFactory \/ FactoryDeployed \/ FactoryDeployFails
  \/ DeployRouter \/ RouterDeployed \/ RouterDeployFails
  \/ GetContracts \/ LogAddresses

DeployStart == DeployInit /\ PageIdle /\ MockIdle

SpecDeploy == DeployStart /\ [][DeployNext]_vars

\* Positions of the calls of deploy for contract name.
CallsOf(name) == {i \in 1..Len(deployCalls) : deployCalls[i].name = name}

\* C3: every Router deployment was called after a Factory deployment that
\* had completed by then, with that Factory's address and the zero address
\* as arguments; every Factory deployment has the deployer as its argument;
\* and after a failed Factory deployment no Router deployment is called.
C3_RouterAfterFactory ==
  /\ \A r \in CallsOf("UniswapV2Router02") :
       \E f \in CallsOf("UniswapV2Factory") :
         /\ f < r
         /\ deployCalls[f].status = "deployed"
         /\ deployCalls[r].args = <<deployCalls[f].address, ZeroAddress>>
  /\ \A f \in CallsOf("UniswapV2Factory") :
       /\ deployCalls[f].args = <<namedAccounts>>
       /\ deployCalls[f].status = "failed" => CallsOf("UniswapV2Router02") = {}

\* deployUniswap resolved with both contracts deployed.
C3_Witness ==
  /\ deployPc = "done"
  /\ \E r \in CallsOf("UniswapV2Router02") : deployCalls[r].status = "deployed"

(***************************************************************************)
(* SpecMock: callers of getHistoricalSwaps, for two pool addresses, while  *)
(* time passes. Calls overlap when one is made before the timer of another *)
(* has fired.                                                              *)
(***************************************************************************)
MockNext ==
  \/ GetHistoricalSwapsCalled
  \/ GetHistoricalSwapsResumes
  \/ TimePasses

MockStart == MockInit /\ PageIdle /\ DeployIdle

SpecMock == MockStart /\ [][MockNext]_vars

Returned == {c \in 1..Callers : calls[c].pc = "returned"}

\* C9: any two calls of getHistoricalSwaps that returned for the same pool
\* address returned the same list of events.
C9_SameListPerAddress ==
  \A c1, c2 \in Returned :
    calls[c1].poolAddress = calls[c2].poolAddress
      => calls[c1].events = calls[c2].events

\* C10: a list generated on a cache miss has exactly 100 events, each with
\* a timestamp not later than the time of generation and later than 30
\* days before it.
C10_HundredEventsOfThePastMonth ==
  \A c \in Returned :
    ~calls[c].hit =>
      /\ Len(calls[c].events) = eventsCount
      /\ \A i \in 1..Len(calls[c].events) :
           /\ NotAfter(calls[c].events[i].timestamp, calls[c].now)
           /\ Before(Minus(calls[c].now, 30, 0), calls[c].events[i].timestamp)

\* A cache miss returned a list holding an event of the oldest day (more
\* than 29 days before generation) and an event of the last day.
C10_Witness ==
  \E c \in Returned :
    /\ ~calls[c].hit
    /\ \E i \in 1..Len(calls[c].events) :
         Before(calls[c].events[i].timestamp, Minus(calls[c].now, 29, 0))
    /\ \E i \in 1..Len(calls[c].events) :
         Before(Minus(calls[c].now, 1, 0), calls[c].events[i].timestamp)

\* C11: the list a call of getHistoricalSwaps returned, on a cache miss or
\* on a cache hit, is in non-decreasing order of timestamp.
C11_ReturnedListsAreSorted ==
  \A c \in Returned :
    \A i \in 1..(Len(calls[c].events) - 1) :
      NotAfter(calls[c].events[i].timestamp, calls[c].events[i + 1].timestamp)

\* A cache hit returned the list an earlier miss generated, and the list
\* spans different times.
C11_Witness ==
  \E c1, c2 \in Returned :
    /\ calls[c1].hit /\ ~calls[c2].hit
    /\ calls[c1].events = calls[c2].events
    /\ Len(calls[c1].events) = eventsCount
    /\ Before(calls[c1].events[1].timestamp,
              calls[c1].events[eventsCount].timestamp)

(***************************************************************************)
(* SpecPools: the pool list and the selection. The factory holds any       *)
(* number of pairs up to MaxPairs; the factory read hooks get their data   *)
(* in any order; the user picks pools; the reads of fetchPoolDetails       *)
(* succeed or fail.                                                        *)
(***************************************************************************)
PoolsInit == PageInit /\ DeadlineIdle /\ DeployIdle /\ MockIdle

PoolsNext ==
  \/ AllPairsLengthRead \/ AllPairsRead
  \/ SelectPool
  \/ FetchReadSucceeds \/ FetchReadFails

SpecPools == PoolsInit /\ [][PoolsNext]_vars

\* C12: pools has at most 5 entries; each entry's address is allPairs(i) of
\* a slot i in 0..4 below allPairsLength; the entries are in increasing
\* order of i; and a slot holds the data of an allPairs(i) read only when
\* allPairsLength is known and greater than i.
C12_AtMostFivePoolsInIndexOrder ==
  /\ Len(pools) <= 5
  /\ \A j \in 1..Len(pools) :
       \E i \in 0..4 :
         /\ pools[j].address = PairAddress(i)
         /\ allPairsLength # Undefined /\ i < allPairsLength
  /\ \A j, k \in 1..Len(pools) :
       j < k => PairIndex(pools[j].address) < PairIndex(pools[k].address)
  /\ \A i \in 0..(PoolSlots - 1) :
       poolData[i] # NoAddress
         => (allPairsLength # Undefined /\ i < allPairsLength)

\* The factory holds more pairs than the page has slots, and pools holds
\* five of them.
C12_Witness == factoryPairs > 5 /\ allPairsLength > 5 /\ Len(pools) = 5

\* C13: (a) in a step that makes pools non-empty while no pool is selected,
\* the first pool of the new list becomes the selected pool; (b) once a
\* pool is selected, a step in which a factory read hook delivers its data
\* or a read of fetchPoolDetails ends (the updates of the pool list) leaves
\* the selection as it is; (c) selectedPoolAddress is empty or the address
\* of an entry of pools.
C13_SelectionFollowsTheList ==
  [][/\ (pools = <<>> /\ selectedPoolAddress = NoAddress /\ pools' # <<>>)
          => selectedPoolAddress' = pools'[1].address
     /\ (/\ selectedPoolAddress # NoAddress
         /\ \/ poolData' # poolData
            \/ allPairsLength' # allPairsLength
            \/ \E a \in PairAddrs : fetchReads'[a] < fetchReads[a])
          => selectedPoolAddress' = selectedPoolAddress
     /\ \/ selectedPoolAddress' = NoAddress
        \/ \E j \in 1..Len(pools') : pools'[j].address = selectedPoolAddress']_vars

\* The list grew in front of the selected pool, which stayed selected: the
\* selected pool is the second entry or a later one.
C13_Witness ==
  \E j \in 2..Len(pools) : pools[j].address = selectedPoolAddress

\* The page with its deadline and its clock: a factory of one pair, a
\* wallet, amounts typed in, the three router writes (each of which may
\* fail and be issued again), time passing and the interval callback.
DeadlineStart ==
  /\ PageInit /\ publicClient /\ factoryPairs = 1
  /\ DeadlineInit
  /\ DeployIdle /\ MockIdle

DeadlineNext ==
  \/ ConnectWallet
  \/ AllPairsLengthRead
  \/ AllPairsRead
  \/ FetchReadSucceeds
  \/ TypeToken0Amount
  \/ TypeToken1Amount
  \/ TypeLpTokenAmount
  \/ ClickDeposit
  \/ ClickRedeem
  \/ ClickSwap
  \/ WriteFails
  \/ ClockAdvances
  \/ DeadlineTick

SpecDeadline == DeadlineStart /\ [][DeadlineNext]_vars

\* The router writes, which carry a deadline.
DeadlineWrites == {"addLiquidity", "removeLiquidity", "swap"}

\* C14: every addLiquidity, removeLiquidity and swap write carries a
\* deadline that is at least 19 minutes and at most 20 minutes after the
\* time at which the write is issued.
C14_DeadlineWithinAMinuteOfTwenty ==
  [][\A k \in DeadlineWrites :
       WriteIssued(k)
         => /\ deadlineArg * 1000 - dateNow >= 19 * 60 * 1000
            /\ deadlineArg * 1000 - dateNow <= 20 * 60 * 1000]_vars

\* The half of C14 that holds: no write carries a deadline more than 20
\* minutes after the time at which it is issued.
DeadlineAtMostTwentyMinutes ==
  [][\A k \in DeadlineWrites :
       WriteIssued(k) => deadlineArg * 1000 - dateNow <= 20 * 60 * 1000]_vars

====
